---- MODULE Spec2Model ----
(***************************************************************************)
(* Model of the user-management REST API of src/index.js over the lowdb    *)
(* JSON document of src/unnamed/part_000 (db.js).                          *)
(*                                                                         *)
(* The state is the persisted document (file), the process-wide in-memory  *)
(* document db.data (data), the write queue of the file adapter, the clock *)
(* read by Date.now()/new Date(), and, per in-flight request, the position *)
(* of its handler (pc) with the handler's local variables.  A handler runs *)
(* to its next await in one step, as the single-threaded event loop does.  *)
(***************************************************************************)
EXTENDS Integers, Sequences, FiniteSets, TLC

VARIABLES file, data, wq, clock, pc, req, rbuf, idx, cand, resp, blob

vars == <<file, data, wq, clock, pc, req, rbuf, idx, cand, resp, blob>>

(***************************************************************************)
(* Bounds and input menus                                                  *)
(***************************************************************************)
\* request slots that may be in flight at the same time
Procs == {1, 2}
\* the clock stops advancing at MaxClock
MaxClock == 1
\* no registration is accepted once the collection holds MaxUsers records
MaxUsers == 2

Emails == {"a@x.com", "root@x.com"}
Passwords == {"secret", "admin123"}
\* what the random sources give one registration: the Math.random() state
\* behind _id and guid, and the salt bcrypt draws
Draws == {[rnd |-> 0, salt |-> "saltA"], [rnd |-> 1, salt |-> "saltB"]}
Salts == {d.salt : d \in Draws}

\* JSON null
Null == "null"
\* a value JavaScript treats as false in `!x` and `x || d`: undefined, "", null
Falsy(v) == v \in {"", Null}

(***************************************************************************)
(* Collaborators: bcryptjs, Date, Math.random                              *)
(***************************************************************************)
\* bcrypt.hash(password, saltRounds): the digest embeds cost and salt
HashWith(pw, salt) == "$2a$10$" \o salt \o "$" \o pw

Digests == {HashWith(pw, s) : pw \in Passwords, s \in Salts}

\* fault: the promise of bcrypt.compare used without await, which is truthy
CompareUnawaited(pw, digest) == TRUE

\* bcrypt.compare(password, digest): re-hashes with the salt the digest
\* embeds; anything that is no digest compares false
Compare(pw, digest) == \E s \in Salts : HashWith(pw, s) = digest

\* new Date().toISOString() at clock reading t
ToISOString(t) == [iso |-> t]

\* Date.now().toString(36) + Math.random().toString(36).substr(2, 5)
IdOf(t, r) == <<t, r>>

\* generateGUID(): random hex digits, the literal 4, and r & 0x3 | 0x8
generateGUID(r) == <<r, 4, (r % 4) + 8>>

Str_User == <<"U", "s", "e", "r">>
Str_Anonymous == <<"A", "n", "o", "n", "y", "m", "o", "u", "s">>

(***************************************************************************)
(* Objects                                                                 *)
(***************************************************************************)
Has(obj, k) == k \in DOMAIN obj

\* obj.k || d for a string or number field
Or(obj, k, d) == IF Has(obj, k) /\ ~Falsy(obj[k]) THEN obj[k] ELSE d

\* !obj.k
Missing(obj, k) == ~Has(obj, k) \/ Falsy(obj[k])

\* { ...a, ...b }
Spread(a, b) ==
  [k \in DOMAIN a \cup DOMAIN b |-> IF k \in DOMAIN b THEN b[k] ELSE a[k]]

\* fault: the record returned as stored
WithPassword(obj) == obj

\* const { password: _, ...rest } = obj
WithoutPassword(obj) == [k \in DOMAIN obj \ {"password"} |-> obj[k]]

EmptyObj == [k \in {} |-> 0]

\* users.find(u => u.email === email) / findIndex: 0 stands for -1/undefined
RECURSIVE FindFrom(_, _, _, _)
FindFrom(us, k, v, i) ==
  IF i > Len(us) THEN 0
  ELSE IF Has(us[i], k) /\ us[i][k] = v THEN i
  ELSE FindFrom(us, k, v, i + 1)

\* fault: the search skips the first record
FindIndexFromSecond(us, k, v) == FindFrom(us, k, v, 2)

FindIndex(us, k, v) == FindFrom(us, k, v, 1)

\* users.splice(i, 1); splice(-1, 1) never happens (the handler returned)
Splice(us, i) ==
  [j \in 1..(Len(us) - (IF i <= Len(us) THEN 1 ELSE 0)) |->
     IF j < i THEN us[j] ELSE us[j + 1]]

\* name.split(' ')
RECURSIVE SplitFrom(_, _, _)
SplitFrom(s, i, cur) ==
  IF i > Len(s) THEN <<cur>>
  ELSE IF s[i] = " " THEN <<cur>> \o SplitFrom(s, i + 1, <<>>)
  ELSE SplitFrom(s, i + 1, Append(cur, s[i]))

Split(s) == SplitFrom(s, 1, <<>>)

\* the name object Register stores: req.body.name is absent, an object
\* [obj |-> ...] or a string [str |-> characters]
NameOf(body) ==
  LET n == IF Has(body, "name") THEN body.name ELSE EmptyObj
      isStr == Has(n, "str")
      o == IF Has(n, "obj") THEN n.obj ELSE EmptyObj
      parts == IF isStr THEN Split(n.str) ELSE <<>>
      first == IF Has(o, "first") /\ o.first # <<>> THEN <<o.first>>
               ELSE IF isStr THEN <<parts[1]>> ELSE <<Str_User>>
      last == IF Has(o, "last") /\ o.last # <<>> THEN <<o.last>>
              ELSE IF isStr THEN (IF Len(parts) >= 2 THEN <<parts[2]>> ELSE <<>>)
              ELSE <<Str_Anonymous>>
  IN [k \in {"first"} \cup (IF last = <<>> THEN {} ELSE {"last"}) |->
        IF k = "first" THEN first[1] ELSE last[1]]

\* the newUser object literal
NewUser(body, hashed, t, r) ==
  [_id |-> IdOf(t, r),
   guid |-> generateGUID(r),
   isActive |-> TRUE,
   balance |-> Or(body, "balance", "$1,000.00"),
   picture |-> Or(body, "picture", "http://placehold.it/32x32"),
   picturePublicId |-> Null,
   age |-> IF Has(body, "age") /\ body.age # 0 THEN body.age ELSE 25,
   eyeColor |-> Or(body, "eyeColor", "brown"),
   name |-> NameOf(body),
   company |-> Or(body, "company", "Freelance"),
   email |-> body.email,
   password |-> hashed,
   phone |-> Or(body, "phone", "+1 (000) 000-0000"),
   address |-> Or(body, "address", "123 Main Street, Anytown, USA"),
   createdAt |-> ToISOString(t),
   updatedAt |-> ToISOString(t)]

\* fault: the record replaced by the updates instead of merged with them
MergedReplacing(user, updates, t) ==
  Spread(updates, [updatedAt |-> ToISOString(t)])

\* { ...users[i], ...updates, updatedAt: new Date().toISOString() }
Merged(user, updates, t) ==
  Spread(Spread(user, updates), [updatedAt |-> ToISOString(t)])

(***************************************************************************)
(* The document and its initial, pre-seeded content                        *)
(***************************************************************************)
AdminEmail == "root@x.com"
SeedAdmin ==
  [email |-> AdminEmail, password |-> HashWith("admin123", "saltA"), role |-> "admin"]

SeedDoc == [users |-> <<>>, admins |-> <<SeedAdmin>>]

NoDoc == [users |-> <<>>, admins |-> <<>>]
NoResp == [status |-> 0]
NoReq == [op |-> "none"]

\* the calls of cloudinary.uploader.destroy a request has made, and those of
\* them that were rejected (and logged by .catch)
NoBlob == [calls |-> 0, errors |-> 0]


(***************************************************************************)
(* Responses: res.status(code).json(body)                                  *)
(***************************************************************************)
Fail(code, msg) == [status |-> code, success |-> FALSE, message |-> msg]

\* a catch block's 500: the body also carries error.message
Fail500(msg) == [status |-> 500, success |-> FALSE, message |-> msg, error |-> "error"]

OkUser(code, msg, user) ==
  [status |-> code, success |-> TRUE, message |-> msg, user |-> user]

OkLogin(msg, user, isAdmin) ==
  [status |-> 200, success |-> TRUE, message |-> msg, user |-> user,
   isAdmin |-> isAdmin]

(***************************************************************************)
(* lowdb: db.read() and db.write() over the steno write queue              *)
(***************************************************************************)
\* db.write() serialises db.data at the call; while a write is under way
\* the adapter keeps only the latest document handed to it
Enqueue(q, d) == IF q = <<>> THEN <<d>> ELSE <<q[1], d>>

\* where the caller of db.write() waits
WaitAt(q) == IF q = <<>> THEN "w_init" ELSE "w_next"

Init ==
  /\ file = SeedDoc
  /\ data = SeedDoc
  /\ wq = <<>>
  /\ clock = 0
  /\ pc = [p \in Procs |-> "idle"]
  /\ req = [p \in Procs |-> NoReq]
  /\ rbuf = [p \in Procs |-> NoDoc]
  /\ idx = [p \in Procs |-> 0]
  /\ cand = [p \in Procs |-> EmptyObj]
  /\ resp = [p \in Procs |-> NoResp]
  /\ blob = [p \in Procs |-> NoBlob]

\* time passes
Tick ==
  /\ clock < MaxClock
  /\ clock' = clock + 1
  /\ UNCHANGED <<file, data, wq, pc, req, rbuf, idx, cand, resp, blob>>

\* the handler's checks before its first await: the 400 responses
Invalid(r) ==
  CASE r.op \in {"register", "login"} ->
         Missing(r.body, "email") \/ Missing(r.body, "password")
    [] r.op = "profile" -> Missing(r.body, "email")
    [] r.op = "update" -> Missing(r.body, "email") \/ ~Has(r.body, "updates")
    [] OTHER -> FALSE

InvalidMessage(r) ==
  CASE r.op \in {"register", "login"} -> "Email and password are required"
    [] r.op = "profile" -> "Email parameter is required"
    [] OTHER -> "Email and updates are required"

\* registrations that may still push a record
Registering == {p \in Procs : req[p].op = "register" /\ pc[p] # "idle"}

\* a request arrives: the handler validates it and calls db.read(), which
\* reads the file as it is now
Request(p, r) ==
  /\ pc[p] = "idle"
  /\ r.op = "register" =>
       Len(file.users) + Cardinality(Registering) < MaxUsers
  /\ req' = [req EXCEPT ![p] = r]
  /\ idx' = [idx EXCEPT ![p] = 0]
  /\ cand' = [cand EXCEPT ![p] = EmptyObj]
  /\ blob' = [blob EXCEPT ![p] = NoBlob]
  /\ IF Invalid(r)
     THEN /\ resp' = [resp EXCEPT ![p] = Fail(400, InvalidMessage(r))]
          /\ UNCHANGED <<pc, rbuf>>
     ELSE /\ resp' = [resp EXCEPT ![p] = NoResp]
          /\ pc' = [pc EXCEPT ![p] = "read"]
          /\ rbuf' = [rbuf EXCEPT ![p] = file]
  /\ UNCHANGED <<file, data, wq, clock>>

\* the handler p is at `await db.read()` of operation op
AtRead(p, op) == pc[p] = "read" /\ req[p].op = op

\* the handler responds and ends; its locals are gone
Respond(p, r) ==
  /\ resp' = [resp EXCEPT ![p] = r]
  /\ pc' = [pc EXCEPT ![p] = "idle"]
  /\ idx' = [idx EXCEPT ![p] = 0]
  /\ cand' = [cand EXCEPT ![p] = EmptyObj]

\* POST /api/auth/register, from db.read() to `await bcrypt.hash`
RegisterRead(p) ==
  /\ AtRead(p, "register")
  /\ data' = rbuf[p]
  /\ rbuf' = [rbuf EXCEPT ![p] = NoDoc]
  /\ IF FindIndex(rbuf[p].users, "email", req[p].body.email) # 0
     THEN Respond(p, Fail(409, "User already exists"))
     ELSE /\ pc' = [pc EXCEPT ![p] = "hash"]
          /\ UNCHANGED <<resp, idx, cand>>
  /\ UNCHANGED <<file, wq, clock, req, blob>>

\* db.data.users.push(newUser)
Pushed(d, u) == [d EXCEPT !.users = Append(@, u)]

\* variant: the email is checked again before the push
RegisterHashedChecked(p) ==
  /\ pc[p] = "hash"
  /\ IF FindFrom(data.users, "email", req[p].body.email, 1) # 0
     THEN /\ resp' = [resp EXCEPT ![p] = [status |-> 409, success |-> FALSE,
                                           message |-> "User already exists"]]
          /\ pc' = [pc EXCEPT ![p] = "idle"]
          /\ UNCHANGED <<data, wq, cand>>
     ELSE /\ \E d \in Draws :
               LET newUser == NewUser(req[p].body,
                                      HashWith(req[p].body.password, d.salt),
                                      clock, d.rnd)
               IN /\ data' = [data EXCEPT !.users = Append(@, newUser)]
                  /\ wq' = IF wq = <<>> THEN <<data'>> ELSE <<wq[1], data'>>
                  /\ cand' = [cand EXCEPT ![p] = newUser]
          /\ pc' = [pc EXCEPT ![p] = IF wq = <<>> THEN "w_init" ELSE "w_next"]
          /\ UNCHANGED resp
  /\ UNCHANGED <<file, clock, req, rbuf, idx, blob>>

\* POST /api/auth/register, from the hash to `await db.write()`
RegisterHashed(p) ==
  /\ pc[p] = "hash"
  /\ \E d \in Draws :
       LET newUser == NewUser(req[p].body, HashWith(req[p].body.password, d.salt),
                              clock, d.rnd)
       IN /\ data' = Pushed(data, newUser)
          /\ wq' = Enqueue(wq, Pushed(data, newUser))
          /\ cand' = [cand EXCEPT ![p] = newUser]
  /\ pc' = [pc EXCEPT ![p] = WaitAt(wq)]
  /\ UNCHANGED <<file, clock, req, rbuf, idx, resp, blob>>

\* POST /api/auth/login, from db.read() to the first `await bcrypt.compare`
\* (or to the 401 of an email in neither collection)
LoginRead(p) ==
  /\ AtRead(p, "login")
  /\ data' = rbuf[p]
  /\ rbuf' = [rbuf EXCEPT ![p] = NoDoc]
  /\ LET a == FindIndex(rbuf[p].admins, "email", req[p].body.email)
         u == FindIndex(rbuf[p].users, "email", req[p].body.email)
     IN IF a # 0
        THEN /\ cand' = [cand EXCEPT ![p] = rbuf[p].admins[a]]
             /\ pc' = [pc EXCEPT ![p] = "cmp_admin"]
             /\ UNCHANGED <<resp, idx>>
        ELSE IF u = 0
        THEN Respond(p, Fail(401, "Invalid credentials"))
        ELSE /\ cand' = [cand EXCEPT ![p] = rbuf[p].users[u]]
             /\ pc' = [pc EXCEPT ![p] = "cmp_user"]
             /\ UNCHANGED <<resp, idx>>
  /\ UNCHANGED <<file, wq, clock, req, blob>>

\* variant: a failed admin check rejects the login at once
LoginAdminRejects(p) ==
  /\ pc[p] = "cmp_admin"
  /\ resp' = [resp EXCEPT ![p] =
                IF \E s \in Salts :
                     HashWith(req[p].body.password, s) = cand[p].password
                THEN [status |-> 200, success |-> TRUE,
                      message |-> "Admin login successful",
                      user |-> [k \in DOMAIN cand[p] \ {"password"} |-> cand[p][k]],
                      isAdmin |-> TRUE]
                ELSE [status |-> 401, success |-> FALSE,
                      message |-> "Invalid credentials"]]
  /\ pc' = [pc EXCEPT ![p] = "idle"]
  /\ idx' = [idx EXCEPT ![p] = 0]
  /\ cand' = [cand EXCEPT ![p] = EmptyObj]
  /\ UNCHANGED <<file, data, wq, clock, req, rbuf, blob>>

\* after the admin's bcrypt.compare: the admin response, or the user lookup
\* in db.data as it is now
LoginAdminCompared(p) ==
  /\ pc[p] = "cmp_admin"
  /\ LET u == FindIndex(data.users, "email", req[p].body.email)
     IN IF Compare(req[p].body.password, cand[p].password)
        THEN Respond(p, OkLogin("Admin login successful",
                                WithoutPassword(cand[p]), TRUE))
        ELSE IF u = 0
        THEN Respond(p, Fail(401, "Invalid credentials"))
        ELSE /\ cand' = [cand EXCEPT ![p] = data.users[u]]
             /\ pc' = [pc EXCEPT ![p] = "cmp_user"]
             /\ UNCHANGED <<resp, idx>>
  /\ UNCHANGED <<file, data, wq, clock, req, rbuf, blob>>

\* variant: a wrong password is reported as such
LoginUserComparedTelling(p) ==
  /\ pc[p] = "cmp_user"
  /\ resp' = [resp EXCEPT ![p] =
                IF \E s \in Salts :
                     HashWith(req[p].body.password, s) = cand[p].password
                THEN [status |-> 200, success |-> TRUE,
                      message |-> "Login successful",
                      user |-> [k \in DOMAIN cand[p] \ {"password"} |-> cand[p][k]],
                      isAdmin |-> FALSE]
                ELSE [status |-> 401, success |-> FALSE,
                      message |-> "Wrong password"]]
  /\ pc' = [pc EXCEPT ![p] = "idle"]
  /\ idx' = [idx EXCEPT ![p] = 0]
  /\ cand' = [cand EXCEPT ![p] = EmptyObj]
  /\ UNCHANGED <<file, data, wq, clock, req, rbuf, blob>>

\* after the user's bcrypt.compare
LoginUserCompared(p) ==
  /\ pc[p] = "cmp_user"
  /\ IF Compare(req[p].body.password, cand[p].password)
     THEN Respond(p, OkLogin("Login successful", WithoutPassword(cand[p]), FALSE))
     ELSE Respond(p, Fail(401, "Invalid credentials"))
  /\ UNCHANGED <<file, data, wq, clock, req, rbuf, blob>>

\* GET /api/auth/profile
ProfileRead(p) ==
  /\ AtRead(p, "profile")
  /\ data' = rbuf[p]
  /\ rbuf' = [rbuf EXCEPT ![p] = NoDoc]
  /\ LET u == FindIndex(rbuf[p].users, "email", req[p].body.email)
     IN IF u = 0
        THEN Respond(p, Fail(404, "User not found"))
        ELSE Respond(p, [status |-> 200, success |-> TRUE,
                         user |-> WithoutPassword(rbuf[p].users[u])])
  /\ UNCHANGED <<file, wq, clock, req, blob>>

\* GET /api/admin/users
ListRead(p) ==
  /\ AtRead(p, "list")
  /\ data' = rbuf[p]
  /\ rbuf' = [rbuf EXCEPT ![p] = NoDoc]
  /\ Respond(p, [status |-> 200, success |-> TRUE,
                 users |-> [i \in 1..Len(rbuf[p].users) |->
                              WithoutPassword(rbuf[p].users[i])]])
  /\ UNCHANGED <<file, wq, clock, req, blob>>

\* db.data.users[userIndex] = { ...users[userIndex], ...updates, updatedAt }
Updated(d, i, updates, t) ==
  [d EXCEPT !.users[i] = Merged(@, updates, t)]

\* PUT /api/auth/profile, from db.read() to `await db.write()`
UpdateRead(p) ==
  /\ AtRead(p, "update")
  /\ rbuf' = [rbuf EXCEPT ![p] = NoDoc]
  /\ LET u == FindIndex(rbuf[p].users, "email", req[p].body.email)
         d == Updated(rbuf[p], u, req[p].body.updates, clock)
     IN IF u = 0
        THEN /\ data' = rbuf[p]
             /\ Respond(p, Fail(404, "User not found"))
             /\ UNCHANGED wq
        ELSE /\ data' = d
             /\ wq' = Enqueue(wq, d)
             /\ idx' = [idx EXCEPT ![p] = u]
             /\ pc' = [pc EXCEPT ![p] = WaitAt(wq)]
             /\ UNCHANGED <<resp, cand>>
  /\ UNCHANGED <<file, clock, req, blob>>

\* variant: the flag is flipped, whatever the request asks for
StatusToggled(d, i, isActive, t) ==
  [d EXCEPT !.users[i] =
     [k \in DOMAIN @ \cup {"isActive", "updatedAt"} |->
        IF k = "isActive" THEN ~@.isActive
        ELSE IF k = "updatedAt" THEN ToISOString(t) ELSE @[k]]]

\* users[userIndex].isActive = isActive; users[userIndex].updatedAt = now
StatusSet(d, i, isActive, t) ==
  [d EXCEPT !.users[i] =
     Spread(@, [isActive |-> isActive, updatedAt |-> ToISOString(t)])]

\* PUT /api/admin/users/:id/status, from db.read() to `await db.write()`
StatusRead(p) ==
  /\ AtRead(p, "status")
  /\ rbuf' = [rbuf EXCEPT ![p] = NoDoc]
  /\ LET u == FindIndex(rbuf[p].users, "_id", req[p].body.id)
         d == StatusSet(rbuf[p], u, req[p].body.isActive, clock)
     IN IF u = 0
        THEN /\ data' = rbuf[p]
             /\ Respond(p, Fail(404, "User not found"))
             /\ UNCHANGED wq
        ELSE /\ data' = d
             /\ wq' = Enqueue(wq, d)
             /\ idx' = [idx EXCEPT ![p] = u]
             /\ pc' = [pc EXCEPT ![p] = WaitAt(wq)]
             /\ UNCHANGED <<resp, cand>>
  /\ UNCHANGED <<file, clock, req, blob>>

\* variant: the splice takes the entry at the index out of both collections
SplicedBoth(d, i) ==
  [users |-> Splice(d.users, i), admins |-> Splice(d.admins, i)]

\* db.data.users.splice(userIndex, 1)
Spliced(d, i) == [d EXCEPT !.users = Splice(@, i)]

\* DELETE /api/admin/users/:id, from db.read() to `await destroy(...)` when
\* the record has a picturePublicId, else to `await db.write()`
DeleteRead(p) ==
  /\ AtRead(p, "delete")
  /\ rbuf' = [rbuf EXCEPT ![p] = NoDoc]
  /\ LET u == FindIndex(rbuf[p].users, "_id", req[p].body.id)
     IN IF u = 0
        THEN /\ data' = rbuf[p]
             /\ Respond(p, Fail(404, "User not found"))
             /\ UNCHANGED <<wq, blob>>
        ELSE IF ~Falsy(rbuf[p].users[u].picturePublicId)
        THEN /\ data' = rbuf[p]
             /\ idx' = [idx EXCEPT ![p] = u]
             /\ blob' = [blob EXCEPT ![p].calls = @ + 1]
             /\ pc' = [pc EXCEPT ![p] = "destroy"]
             /\ UNCHANGED <<wq, resp, cand>>
        ELSE /\ data' = Spliced(rbuf[p], u)
             /\ wq' = Enqueue(wq, Spliced(rbuf[p], u))
             /\ idx' = [idx EXCEPT ![p] = u]
             /\ pc' = [pc EXCEPT ![p] = WaitAt(wq)]
             /\ UNCHANGED <<resp, blob, cand>>
  /\ UNCHANGED <<file, clock, req>>

\* variant: no .catch on the destroy call, a rejection reaches the
\* handler's catch block
DeleteDestroyedThrows(p) ==
  /\ pc[p] = "destroy"
  /\ \E ok \in BOOLEAN :
       IF ok
       THEN /\ data' = [data EXCEPT !.users = Splice(@, idx[p])]
            /\ wq' = IF wq = <<>> THEN <<data'>> ELSE <<wq[1], data'>>
            /\ pc' = [pc EXCEPT ![p] = IF wq = <<>> THEN "w_init" ELSE "w_next"]
            /\ UNCHANGED <<blob, resp, idx>>
       ELSE /\ blob' = [blob EXCEPT ![p].errors = @ + 1]
            /\ resp' = [resp EXCEPT ![p] = [status |-> 500, success |-> FALSE,
                                             message |-> "Failed to delete user",
                                             error |-> "error"]]
            /\ pc' = [pc EXCEPT ![p] = "idle"]
            /\ idx' = [idx EXCEPT ![p] = 0]
            /\ UNCHANGED <<data, wq>>
  /\ UNCHANGED <<file, clock, req, rbuf, cand>>

\* the blob deletion settled, with success or with an error that .catch
\* logs: the handler splices db.data as it is now at the index found before
DeleteDestroyed(p) ==
  /\ pc[p] = "destroy"
  /\ \E ok \in BOOLEAN :
       blob' = [blob EXCEPT ![p].errors = IF ok THEN @ ELSE @ + 1]
  /\ data' = Spliced(data, idx[p])
  /\ wq' = Enqueue(wq, Spliced(data, idx[p]))
  /\ pc' = [pc EXCEPT ![p] = WaitAt(wq)]
  /\ UNCHANGED <<file, clock, req, rbuf, idx, cand, resp>>

\* the handler's response after `await db.write()`; users[userIndex] is read
\* from db.data as it is now, and destructuring undefined throws into the
\* catch block
AfterWrite(p) ==
  CASE req[p].op = "register" ->
         OkUser(201, "User registered successfully", WithoutPassword(cand[p]))
    [] req[p].op = "update" ->
         IF idx[p] <= Len(data.users)
         THEN OkUser(200, "Profile updated successfully",
                     WithoutPassword(data.users[idx[p]]))
         ELSE Fail500("Failed to update profile")
    [] req[p].op = "status" ->
         IF idx[p] <= Len(data.users)
         THEN OkUser(200, "User status updated", WithoutPassword(data.users[idx[p]]))
         ELSE Fail500("Failed to update user status")
    [] OTHER ->
         [status |-> 200, success |-> TRUE, message |-> "User deleted successfully"]

\* the write under way reaches the file (temp file, then rename).  The
\* callers queued behind it resume when their document is written; the
\* caller that started the queue resumes when the queue is empty.
Resumes(p) == pc[p] = "w_cur" \/ (pc[p] = "w_init" /\ Len(wq) = 1)

Land ==
  /\ wq # <<>>
  /\ file' = wq[1]
  /\ wq' = Tail(wq)
  /\ pc' = [p \in Procs |->
              IF Resumes(p) THEN "idle"
              ELSE IF pc[p] = "w_next" THEN "w_cur" ELSE pc[p]]
  /\ resp' = [p \in Procs |-> IF Resumes(p) THEN AfterWrite(p) ELSE resp[p]]
  /\ idx' = [p \in Procs |-> IF Resumes(p) THEN 0 ELSE idx[p]]
  /\ cand' = [p \in Procs |-> IF Resumes(p) THEN EmptyObj ELSE cand[p]]
  /\ UNCHANGED <<data, clock, req, rbuf, blob>>

\* what a handler does between two awaits
RegisterStep(p) == RegisterRead(p) \/ RegisterHashed(p)

LoginStep(p) == LoginRead(p) \/ LoginAdminCompared(p) \/ LoginUserCompared(p)

Step(p) ==
  \/ RegisterStep(p)
  \/ LoginStep(p)
  \/ ProfileRead(p)
  \/ ListRead(p)
  \/ UpdateRead(p)
  \/ StatusRead(p)
  \/ DeleteRead(p)

(***************************************************************************)
(* Requests the clients send                                               *)
(***************************************************************************)
Body(op, b) == [op |-> op, body |-> b]

\* ids a client can name: those of the stored records and one of no record
UnknownId == <<0, 9>>
KnownIds(d) == {d.users[i]._id : i \in 1..Len(d.users)} \cup {UnknownId}

RegisterRequests(E, PW) ==
  {Body("register", [email |-> e, password |-> pw]) : e \in E, pw \in PW}

LoginRequests(E, PW) ==
  {Body("login", [email |-> e, password |-> pw]) : e \in E, pw \in PW}

ProfileRequests(E) == {Body("profile", [email |-> e]) : e \in E}

\* U: the update objects; a request may also carry no updates at all
UpdateRequests(E, U) ==
  {Body("update", [email |-> e, updates |-> u]) : e \in E, u \in U}
    \cup {Body("update", [email |-> e]) : e \in E}

ListRequests == {Body("list", EmptyObj)}

StatusRequests(d) ==
  {Body("status", [id |-> i, isActive |-> b]) : i \in KnownIds(d), b \in BOOLEAN}

DeleteRequests(d) == {Body("delete", [id |-> i]) : i \in KnownIds(d)}

\* update objects that name one profile field, and the empty one
PlainUpdates == {[company |-> "Acme"], EmptyObj}

\* update objects that name the fields the handlers rely on
KeyUpdates ==
  {[password |-> "secret"], [_id |-> IdOf(0, 0)], [createdAt |-> ToISOString(0)]}
    \cup {[email |-> e] : e \in Emails}

KeyRequests ==
  RegisterRequests(Emails, {"secret"}) \cup UpdateRequests(Emails, KeyUpdates)
    \cup ListRequests

SeqRequests(d) ==
  RegisterRequests({"a@x.com", ""}, {"secret"})
    \cup RegisterRequests({AdminEmail}, Passwords \cup {""})
    \cup LoginRequests(Emails, Passwords) \cup LoginRequests({""}, {"secret"})
    \cup ProfileRequests(Emails \cup {""})
    \cup UpdateRequests(Emails, PlainUpdates)
    \cup ListRequests \cup StatusRequests(d) \cup DeleteRequests(d)

(***************************************************************************)
(* Specifications                                                          *)
(***************************************************************************)
\* requests served one after the other: one request slot
NextSeq ==
  \/ Tick
  \/ \E r \in SeqRequests(file) : Request(1, r)
  \/ Step(1)
  \/ Land

SpecSeq == Init /\ [][NextSeq]_vars

\* requests served one after the other, with updates of the key fields
NextKeys ==
  \/ Tick
  \/ \E r \in KeyRequests : Request(1, r)
  \/ RegisterStep(1)
  \/ UpdateRead(1)
  \/ ListRead(1)
  \/ Land

SpecKeys == Init /\ [][NextKeys]_vars

\* registrations (and listings) of both request slots, interleaved at their
\* awaits
RaceRequests == RegisterRequests(Emails, {"secret"}) \cup ListRequests

Next ==
  \/ Tick
  \/ \E p \in Procs, r \in RaceRequests : Request(p, r)
  \/ \E p \in Procs : RegisterStep(p) \/ ListRead(p)
  \/ Land

Spec == Init /\ [][Next]_vars

\* requests served one after the other, with pictures: a profile update
\* stores a picture reference, and the record is deleted afterwards
PictureUpdates == {[picturePublicId |-> "user-profiles/pic1"]}

BlobRequests(d) ==
  RegisterRequests(Emails, {"secret"})
    \cup UpdateRequests(Emails, PictureUpdates)
    \cup DeleteRequests(d)

NextBlob ==
  \/ Tick
  \/ \E r \in BlobRequests(file) : Request(1, r)
  \/ RegisterStep(1)
  \/ UpdateRead(1)
  \/ DeleteRead(1)
  \/ DeleteDestroyed(1)
  \/ Land

SpecBlob == Init /\ [][NextBlob]_vars

\* registrations that give the name as one string, served one after the other
NameChars == {"a", " "}
MaxNameLen == 5

Names == UNION {[1..n -> NameChars] : n \in 0..MaxNameLen}

NameRequests ==
  {Body("register", [email |-> "a@x.com", password |-> "secret",
                     name |-> [str |-> s]]) : s \in Names}
    \cup RegisterRequests({"a@x.com"}, {"secret"})
    \cup ListRequests

NextName ==
  \/ Tick
  \/ \E r \in NameRequests : Request(1, r)
  \/ RegisterStep(1)
  \/ ListRead(1)
  \/ Land

SpecName == Init /\ [][NextName]_vars

\* deletions of records with pictures, both request slots interleaved at
\* their awaits.  The server starts on a users.json that holds two records
\* registered and given a picture earlier (documents SpecBlob reaches)
PictureUser(e, d) ==
  Merged(NewUser([email |-> e, password |-> "secret"],
                 HashWith("secret", d.salt), 0, d.rnd),
         [picturePublicId |-> "user-profiles/pic1"], 0)

PictureDoc ==
  Pushed(Pushed(SeedDoc, PictureUser("a@x.com", [rnd |-> 0, salt |-> "saltA"])),
         PictureUser("root@x.com", [rnd |-> 1, salt |-> "saltB"]))

InitDel ==
  /\ file = PictureDoc
  /\ data = PictureDoc
  /\ wq = <<>>
  /\ clock = 0
  /\ pc = [p \in Procs |-> "idle"]
  /\ req = [p \in Procs |-> NoReq]
  /\ rbuf = [p \in Procs |-> NoDoc]
  /\ idx = [p \in Procs |-> 0]
  /\ cand = [p \in Procs |-> EmptyObj]
  /\ resp = [p \in Procs |-> NoResp]
  /\ blob = [p \in Procs |-> NoBlob]

DelRequests(d) == DeleteRequests(d) \cup ListRequests

NextDel ==
  \/ Tick
  \/ \E p \in Procs, r \in DelRequests(file) : Request(p, r)
  \/ \E p \in Procs : DeleteRead(p) \/ DeleteDestroyed(p) \/ ListRead(p)
  \/ Land

SpecDel == InitDel /\ [][NextDel]_vars

(***************************************************************************)
(* Properties                                                              *)
(***************************************************************************)
Users == file.users
UserIndexes == 1..Len(file.users)

\* C1: no two records of the persisted user collection have the same email
EmailsUnique ==
  \A i, j \in UserIndexes : i # j => Users[i].email # Users[j].email

\* C2: the password of every persisted user record is a digest of the
\* hashing collaborator, never a plaintext a client submitted
PasswordsHashed ==
  \A i \in UserIndexes :
    Users[i].password \in Digests /\ Users[i].password \notin Passwords

\* a write that neither adds nor removes a record
SameRecords == Len(file'.users) = Len(file.users)

\* C4: a write that keeps the records keeps the _id of each of them
IdImmutable ==
  [][SameRecords => \A i \in UserIndexes : file'.users[i]._id = Users[i]._id]_vars

\* C5: a write that keeps the records keeps the createdAt of each of them,
\* and the updatedAt of a record it changes is the time of the write call
CreatedAtImmutable ==
  [][SameRecords =>
       \A i \in UserIndexes :
         /\ file'.users[i].createdAt = Users[i].createdAt
         /\ file'.users[i] # Users[i] =>
              file'.users[i].updatedAt \in {ToISOString(t) : t \in 0..clock}]_vars

\* the handler of slot p has responded to a well-formed request of kind op
Done(p, op) == pc[p] = "idle" /\ req[p].op = op /\ resp[p].status \notin {0, 400}

\* C3: no response carries a password field in the record(s) it returns
NoPassword(r) ==
  /\ Has(r, "user") => ~Has(r.user, "password")
  /\ Has(r, "users") => \A i \in DOMAIN r.users : ~Has(r.users[i], "password")

ResponsesRedacted == \A p \in Procs : NoPassword(resp[p])

\* C3 witness: an admin login has answered with the admin record
AdminRecordReturned ==
  /\ Done(1, "login")
  /\ resp[1].status = 200
  /\ resp[1].isAdmin
  /\ resp[1].user.email = AdminEmail

\* the emails of a collection
EmailsOf(us) == {us[i].email : i \in 1..Len(us)}
\* how many records of a collection carry email e
CountOf(us, e) == Cardinality({i \in 1..Len(us) : us[i].email = e})

\* C6: a Register that arrives when the email is already stored answers 409
\* and writes nothing; a Register that is answered 201 has added exactly one
\* record, so the two attempts together add exactly one
RegisterTwice ==
  [][\A p \in {1} :
       /\ (AtRead(p, "register") /\ pc'[p] # "read"
             /\ req[p].body.email \in EmailsOf(file.users))
          => /\ pc'[p] = "idle"
             /\ resp'[p].status = 409
             /\ wq' = <<>>
             /\ file' = file
       /\ (req[p].op = "register" /\ pc[p] = "w_init" /\ pc'[p] = "idle")
          => /\ resp'[p].status = 201
             /\ Len(file'.users) = Len(file.users) + 1
             /\ CountOf(file'.users, req[p].body.email) = 1]_vars

\* C6 witness: the second attempt was answered 409 and one record is stored
SecondRegisterRefused ==
  /\ Done(1, "register")
  /\ resp[1].status = 409
  /\ Len(file.users) = 1
  /\ CountOf(file.users, req[1].body.email) = 1

\* C7: the uniqueness check looks only at the document the request read,
\* and nothing checks the email again before the push: a registration that
\* passed the check adds its record to whatever db.data holds by then, also
\* a record of the same email
InsertUnchecked ==
  [][\A p \in Procs :
       /\ (AtRead(p, "register") /\ pc'[p] # "read")
          => (pc'[p] = "hash" <=> req[p].body.email \notin EmailsOf(rbuf[p].users))
       /\ (pc[p] = "hash" /\ pc'[p] # "hash")
          => /\ Len(data'.users) = Len(data.users) + 1
             /\ data'.users[Len(data'.users)].email = req[p].body.email
             /\ pc'[p] \in {"w_init", "w_next"}]_vars

\* C7 witness: two registrations of one email were both answered 201 and
\* the persisted collection holds two records of that email
DuplicateEmailStored ==
  /\ Done(1, "register") /\ Done(2, "register")
  /\ resp[1].status = 201 /\ resp[2].status = 201
  /\ req[1].body.email = req[2].body.email
  /\ wq = <<>>
  /\ CountOf(file.users, req[1].body.email) = 2

\* bcrypt's verification, stated on the digest's content
Verifies(pw, digest) == digest \in {HashWith(pw, s) : s \in Salts}

\* the first record of a collection with email e, 0 if there is none
FirstOf(us, e) ==
  LET S == {i \in 1..Len(us) : us[i].email = e}
  IN IF S = {} THEN 0 ELSE CHOOSE i \in S : \A j \in S : i <= j

Redacted(rec) == [k \in DOMAIN rec \ {"password"} |-> rec[k]]

\* C8 as stated: a successful login is an admin login iff the email is in
\* the admin collection, and a wrong password for a known email gives 401
AdminIffEmailIsAdmin ==
  \A p \in Procs :
    Done(p, "login") =>
      LET e == req[p].body.email
          pw == req[p].body.password
          a == FirstOf(file.admins, e)
          u == FirstOf(file.users, e)
          right == \/ a # 0 /\ Verifies(pw, file.admins[a].password)
                   \/ u # 0 /\ Verifies(pw, file.users[u].password)
      IN /\ resp[p].status = 200 => (resp[p].isAdmin <=> a # 0)
         /\ (a # 0 \/ u # 0) /\ ~right => resp[p].status = 401

\* C8 amended: a login is answered as admin iff the password verifies
\* against the admin record of the email, as user iff it does not and
\* verifies against the user record, and with 401 in every other case
LoginOutcome ==
  \A p \in Procs :
    Done(p, "login") =>
      LET e == req[p].body.email
          pw == req[p].body.password
          a == FirstOf(file.admins, e)
          u == FirstOf(file.users, e)
      IN IF a # 0 /\ Verifies(pw, file.admins[a].password)
         THEN /\ resp[p].status = 200
              /\ resp[p].isAdmin
              /\ resp[p].user = Redacted(file.admins[a])
         ELSE IF u # 0 /\ Verifies(pw, file.users[u].password)
         THEN /\ resp[p].status = 200
              /\ ~resp[p].isAdmin
              /\ resp[p].user = Redacted(file.users[u])
         ELSE resp[p].status = 401

\* C8 witness: a user whose email is also an admin's logged in as a user
UserLoginWithAdminEmail ==
  /\ Done(1, "login")
  /\ resp[1].status = 200
  /\ ~resp[1].isAdmin
  /\ req[1].body.email \in EmailsOf(file.admins)

\* C9: with the email in both collections under different passwords, a
\* login whose password fails the admin's check is decided by the user
\* record: 200 with isAdmin=false if it verifies there, 401 if not
AdminMismatchFallsThrough ==
  \A p \in Procs :
    LET e == req[p].body.email
        pw == req[p].body.password
        a == FirstOf(file.admins, e)
        u == FirstOf(file.users, e)
    IN (/\ Done(p, "login")
        /\ a # 0 /\ u # 0
        /\ file.admins[a].password # file.users[u].password
        /\ ~Verifies(pw, file.admins[a].password))
       => IF Verifies(pw, file.users[u].password)
          THEN resp[p] = OkLogin("Login successful", Redacted(file.users[u]), FALSE)
          ELSE resp[p] = Fail(401, "Invalid credentials")

\* C9 witness: the admin's check failed and the user's succeeded
FellThroughToUser ==
  LET a == FirstOf(file.admins, req[1].body.email)
      u == FirstOf(file.users, req[1].body.email)
  IN /\ Done(1, "login")
     /\ a # 0 /\ u # 0
     /\ ~Verifies(req[1].body.password, file.admins[a].password)
     /\ Verifies(req[1].body.password, file.users[u].password)
     /\ resp[1].status = 200

\* C10: the write of an UpdateProfile that names one field changes, in the
\* persisted document, only that field and updatedAt of the addressed
\* record: its other fields, the other records and the admins stay
SingleFieldUpdate ==
  [][\A p \in {1} :
       (/\ req[p].op = "update" /\ pc[p] = "w_init" /\ pc'[p] = "idle"
        /\ Cardinality(DOMAIN req[p].body.updates) = 1)
       => /\ file'.admins = file.admins
          /\ Len(file'.users) = Len(file.users)
          /\ \A i \in UserIndexes : i # idx[p] => file'.users[i] = Users[i]
          /\ DOMAIN file'.users[idx[p]]
               = DOMAIN Users[idx[p]] \cup DOMAIN req[p].body.updates
          /\ \A k \in DOMAIN Users[idx[p]] :
               k \notin DOMAIN req[p].body.updates \cup {"updatedAt"}
                 => file'.users[idx[p]][k] = Users[idx[p]][k]
          /\ \A k \in DOMAIN req[p].body.updates \ {"updatedAt"} :
               file'.users[idx[p]][k] = req[p].body.updates[k]]_vars

\* C10 witness: the company of one of two records was updated
CompanyUpdated ==
  /\ Done(1, "update")
  /\ resp[1].status = 200
  /\ req[1].body.updates = [company |-> "Acme"]
  /\ Len(file.users) = 2
  /\ \E i \in UserIndexes :
       Users[i].company = "Acme" /\ Users[i].email = req[1].body.email

\* C11: deleting a record that holds a picture reference makes exactly one
\* attempt to delete the blob; whether that attempt succeeds or fails, the
\* request is answered with success and the record is gone from the stored
\* collection, the other records staying as they were
HasPicture(d, id) ==
  LET i == FindFrom(d.users, "_id", id, 1)
  IN i # 0 /\ d.users[i].picturePublicId # Null

DeleteWithPicture ==
  [][\A p \in {1} :
       LET id == req[p].body.id
           i == FindFrom(file.users, "_id", id, 1)
       IN /\ (pc[p] = "read" /\ pc'[p] # "read" /\ req[p].op = "delete"
                /\ HasPicture(rbuf[p], id))
             => (pc'[p] = "destroy" /\ blob'[p] = [calls |-> 1, errors |-> 0])
          /\ (pc[p] = "destroy" /\ pc'[p] # "destroy")
             => (pc'[p] = "w_init" /\ blob'[p].calls = 1 /\ blob'[p].errors \in {0, 1})
          /\ (req[p].op = "delete" /\ pc[p] = "w_init" /\ pc'[p] = "idle"
                /\ blob[p].calls # 0)
             => /\ resp'[p] = [status |-> 200, success |-> TRUE,
                                message |-> "User deleted successfully"]
                /\ blob'[p].calls = 1
                /\ i # 0
                /\ Len(file'.users) = Len(file.users) - 1
                /\ \A j \in 1..Len(file'.users) :
                      file'.users[j] = file.users[IF j < i THEN j ELSE j + 1]]_vars

\* a delete answered with success although the blob deletion failed
DeletedDespiteBlobError ==
  /\ Done(1, "delete")
  /\ resp[1].status = 200
  /\ blob[1] = [calls |-> 1, errors |-> 1]
  /\ ~HasPicture(file, req[1].body.id)

\* C12: UpdateProfile answers 404 when the email matches no user and 400 when
\* no update fields are given (no updates, or an updates object without
\* fields), one of the two when both hold, and in these cases the stored
\* document stays as it was
NoUpdateFields(body) == ~Has(body, "updates") \/ body.updates = EmptyObj

UpdateRefused ==
  [][\A p \in {1} :
       /\ (req'[p].op = "update" /\ pc'[p] = "idle")
          => LET known == req'[p].body.email \in EmailsOf(file'.users)
                 none == NoUpdateFields(req'[p].body)
             IN /\ (none /\ known) => resp'[p].status = 400
                /\ (~none /\ ~known) => resp'[p].status = 404
                /\ (none /\ ~known) => resp'[p].status \in {400, 404}
       /\ (req[p].op = "update" /\ pc[p] # "idle"
             /\ (NoUpdateFields(req[p].body)
                   \/ req[p].body.email \notin EmailsOf(file.users)))
          => file' = file]_vars

\* C13: SetUserActive(id, false) is idempotent: each application to an
\* existing id leaves the record with isActive = FALSE, and an application to
\* a record that the one before left inactive changes nothing but updatedAt
Deactivation(p) ==
  /\ req[p].op = "status"
  /\ req[p].body.isActive = FALSE
  /\ pc[p] = "w_init"

DeactivateIdempotent ==
  [][\A p \in {1} :
       (Deactivation(p) /\ pc'[p] = "idle")
       => LET i == FindFrom(file.users, "_id", req[p].body.id, 1)
          IN /\ i # 0
             /\ Len(file'.users) = Len(file.users)
             /\ file'.users[i].isActive = FALSE
             /\ resp'[p].status = 200
             /\ resp'[p].user.isActive = FALSE
             /\ file.users[i].isActive = FALSE
                => /\ DOMAIN file'.users[i] = DOMAIN file.users[i]
                   /\ \A k \in DOMAIN file.users[i] \ {"updatedAt"} :
                        file'.users[i][k] = file.users[i][k]
             /\ \A j \in 1..Len(file.users) :
                  j # i => file'.users[j] = file.users[j]]_vars

\* the second of two deactivations is being written: the stored record is
\* inactive already and the document on its way differs in updatedAt
SecondDeactivation ==
  /\ Deactivation(1)
  /\ wq # <<>>
  /\ LET i == FindFrom(file.users, "_id", req[1].body.id, 1)
     IN /\ i # 0
        /\ file.users[i].isActive = FALSE
        /\ wq[1].users[i].isActive = FALSE
        /\ wq[1].users[i].updatedAt # file.users[i].updatedAt

\* C14: a login that fails because the email is in neither collection and a
\* login that fails because the password is wrong for an email that exists
\* are answered with one and the same response, status 401 with the same body
FailedLoginsAlike ==
  \A p \in Procs :
    Done(p, "login") =>
      LET e == req[p].body.email
          pw == req[p].body.password
          a == FirstOf(file.admins, e)
          u == FirstOf(file.users, e)
          unknown == a = 0 /\ u = 0
          wrong == /\ a # 0 \/ u # 0
                   /\ a # 0 => ~Verifies(pw, file.admins[a].password)
                   /\ u # 0 => ~Verifies(pw, file.users[u].password)
      IN (unknown \/ wrong)
         => resp[p] = [status |-> 401, success |-> FALSE,
                       message |-> "Invalid credentials"]

\* a login refused for a wrong password, the email being a stored user's
WrongPasswordRefused ==
  /\ Done(1, "login")
  /\ resp[1].status = 401
  /\ LET u == FirstOf(file.users, req[1].body.email)
     IN /\ u # 0
        /\ ~Verifies(req[1].body.password, file.users[u].password)

\* C15: no operation creates, changes or removes an admin record: the admin
\* collection of the stored document, and of every document on its way to
\* the file, is the pre-seeded one in every reachable state
AdminsUntouched ==
  /\ file.admins = <<[email |-> "root@x.com",
                      password |-> HashWith("admin123", "saltA"),
                      role |-> "admin"]>>
  /\ \A k \in 1..Len(wq) : wq[k].admins = file.admins

\* records were registered, changed and deleted, the last request being a
\* delete that left a changed record behind
UsersChangedAndDeleted ==
  /\ Done(1, "delete")
  /\ resp[1].status = 200
  /\ Len(file.users) = 1
  /\ file.users[1].company = "Acme"
  /\ ~file.users[1].isActive

\* C16: a registration that gives the name as one string stores as
\* name.first the text before the first space and as name.last the text
\* after the first space (a string without a space is the first name); a
\* registration that gives no name stores first "User", last "Anonymous"
NameSplitAtFirstSpace ==
  \A p \in {1} :
    (Done(p, "register") /\ resp[p].status = 201) =>
      LET body == req[p].body
          stored == file.users[FirstOf(file.users, body.email)].name
      IN IF ~Has(body, "name")
         THEN stored = [first |-> <<"U", "s", "e", "r">>,
                        last |-> <<"A", "n", "o", "n", "y", "m", "o", "u", "s">>]
         ELSE LET s == body.name.str
                  spaces == {i \in 1..Len(s) : s[i] = " "}
                  i == CHOOSE k \in spaces : \A j \in spaces : k <= j
              IN IF spaces = {}
                 THEN stored.first = s
                 ELSE stored = [first |-> SubSeq(s, 1, i - 1),
                                last |-> SubSeq(s, i + 1, Len(s))]

\* C17: when a delete that waited for the blob deletion splices the shared
\* document, the index it found before the wait still designates the record
\* with the requested id, and the splice removes that record and no other
DeleteExactlyTheRecord ==
  [][\A p \in Procs :
       (pc[p] = "destroy" /\ pc'[p] # "destroy")
       => /\ idx[p] <= Len(data.users)
          /\ data.users[idx[p]]._id = req[p].body.id
          /\ Len(data'.users) = Len(data.users) - 1
          /\ \A j \in 1..Len(data'.users) :
               data'.users[j]._id # req[p].body.id]_vars

\* C18: no acknowledged mutation is lost: when every request has finished
\* and no write is under way, the record of each registration that was
\* answered 201 is in the stored document (no request here changes or
\* deletes a record once it is stored)
AcknowledgedKept ==
  ((\A p \in Procs : pc[p] = "idle") /\ wq = <<>>)
  => \A p \in Procs :
       (req[p].op = "register" /\ resp[p].status = 201)
       => \E i \in 1..Len(file.users) :
            [k \in DOMAIN file.users[i] \ {"password"} |-> file.users[i][k]]
              = resp[p].user

====
